---- MODULE Spec2Model ----
(***************************************************************************)
(* Model of src/student_loans.py: the loan validator, the three financial  *)
(* formulas and the three button callbacks of the Tk form.                 *)
(*                                                                         *)
(* Python floats are modelled as exact rationals <<p, q>> (q > 0, lowest   *)
(* terms); the value -log(x)/log(b) of calculate_time_to_repay is kept as  *)
(* the pair (x, b) and is rounded with exact power comparisons.  Python    *)
(* values are tagged records (str, float, NoneType) and a raised exception *)
(* is the tag "raise" with the exception class.                            *)
(***************************************************************************)
EXTENDS Integers, Sequences, FiniteSets, TLC

VARIABLES entries, handler, raised, calls

vars == <<entries, handler, raised, calls>>

(***************************************************************************)
(* Bounds of the input space.                                              *)
(***************************************************************************)
MaxAmount == 1
MaxExtra == 2
MaxSalaryUnits == 1

(***************************************************************************)
(* Exact rational arithmetic standing for Python float arithmetic.         *)
(***************************************************************************)
Abs(i) == IF i < 0 THEN -i ELSE i

RECURSIVE GCD(_, _)
GCD(a, b) == IF b = 0 THEN a ELSE GCD(b, a % b)

Norm(p, q) ==
    LET g == GCD(Abs(p), Abs(q))
        s == IF q < 0 THEN -1 ELSE 1
    IN  <<s * (p \div g), s * (q \div g)>>

R(i) == <<i, 1>>

RNeg(x) == <<-x[1], x[2]>>

RAdd(x, y) ==
    LET g == GCD(x[2], y[2])
    IN  Norm(x[1] * (y[2] \div g) + y[1] * (x[2] \div g), (x[2] \div g) * y[2])

RSub(x, y) == RAdd(x, RNeg(y))

RMul(x, y) ==
    LET g1 == GCD(Abs(x[1]), y[2])
        g2 == GCD(Abs(y[1]), x[2])
    IN  IF x[1] = 0 \/ y[1] = 0 THEN <<0, 1>>
        ELSE Norm((x[1] \div g1) * (y[1] \div g2), (x[2] \div g2) * (y[2] \div g1))

RInv(x) == Norm(x[2], x[1])

RLess(x, y) == RSub(x, y)[1] < 0

RLeq(x, y) == RSub(x, y)[1] <= 0

RECURSIVE RPowNat(_, _)
RPowNat(x, k) == IF k = 0 THEN <<1, 1>> ELSE RMul(x, RPowNat(x, k - 1))

RPowInt(x, k) == IF k >= 0 THEN RPowNat(x, k) ELSE RPowNat(RInv(x), -k)

(***************************************************************************)
(* Python values.                                                          *)
(***************************************************************************)
Str(s) == [t |-> "str", s |-> s, n |-> <<0, 1>>, b |-> <<0, 1>>]

Float(x) == [t |-> "float", s |-> "", n |-> x, b |-> <<0, 1>>]

\* the float -log(x)/log(b), for x > 0, b > 0, b # 1
LogQuotient(x, b) == [t |-> "float", s |-> "-log(n)/log(b)", n |-> x, b |-> b]

None == [t |-> "NoneType", s |-> "", n |-> <<0, 1>>, b |-> <<0, 1>>]

Raise(e) == [t |-> "raise", s |-> e, n |-> <<0, 1>>, b |-> <<0, 1>>]

isinstance_str(v) == v.t = "str"

IsRaise(v) == v.t = "raise"

IsExact(v) == v.t = "float" /\ v.s = ""

\* x / y on floats
PyDiv(x, y) == IF y[1] = 0 THEN Raise("ZeroDivisionError") ELSE Float(RMul(x, RInv(y)))

\* x ** k on floats, k a whole number
PyPow(x, k) ==
    IF x[1] = 0 /\ k < 0 THEN Raise("ZeroDivisionError") ELSE Float(RPowInt(x, k))

\* math.log(x): only its domain and its sign are computed
MathLogDefined(x) == x[1] > 0

(***************************************************************************)
(* check_loan_parameters                                                   *)
(***************************************************************************)
\* a faulty variant: a validator that also turns away negative values
check_loan_parameters_strict(loan_amount, interest_rate_year, loan_term, loan_term_units) ==
    IF loan_amount[1] <= 0 THEN Str("Please enter valid loan amount")
    ELSE IF interest_rate_year[1] <= 0 THEN Str("Please enter valid interest rate")
    ELSE IF loan_term[1] <= 0 THEN Str("Please enter valid loan term")
    ELSE IF loan_term_units # "months" /\ loan_term_units # "years"
         THEN Str("Please select 'years' or 'months' for the loan term")
    ELSE None

check_loan_parameters(loan_amount, interest_rate_year, loan_term, loan_term_units) ==
    IF loan_amount = R(0) THEN Str("Please enter valid loan amount")
    ELSE IF interest_rate_year = R(0) THEN Str("Please enter valid interest rate")
    ELSE IF loan_term = R(0) THEN Str("Please enter valid loan term")
    ELSE IF loan_term_units # "months" /\ loan_term_units # "years"
         THEN Str("Please select 'years' or 'months' for the loan term")
    ELSE None

(***************************************************************************)
(* calculate_monthly_payment.  The record carries the returned value (or   *)
(* the raised exception) and what the call computed on the way.            *)
(***************************************************************************)
\* a faulty variant: the term taken as a count of payments whatever its unit
NumberOfPayments_unconverted(loan_term, loan_term_units) == loan_term

NumberOfPayments(loan_term, loan_term_units) ==
    IF loan_term_units = "years" THEN RMul(loan_term, R(12)) ELSE loan_term

calculate_monthly_payment(loan_amount, interest_rate_year, loan_term, loan_term_units) ==
    LET param_check == check_loan_parameters(loan_amount, interest_rate_year,
                                             loan_term, loan_term_units)
        interest_rate_month == RMul(interest_rate_year, RInv(R(12)))
        number_of_payments == NumberOfPayments(loan_term, loan_term_units)
        growth == RAdd(R(1), RMul(interest_rate_month, RInv(R(100))))
        power == PyPow(growth, number_of_payments[1])
        numerator == RMul(RMul(RMul(loan_amount, interest_rate_month), RInv(R(100))),
                          power.n)
        denominator == RSub(power.n, R(1))
    IN  IF isinstance_str(param_check)
        THEN [ret |-> param_check, param_check |-> param_check, ops |-> <<>>,
              number_of_payments |-> R(0), denominator |-> None]
        ELSE IF IsRaise(power)
        THEN [ret |-> power, param_check |-> param_check,
              ops |-> <<"interest_rate_month", "number_of_payments", "monthly_payment">>,
              number_of_payments |-> number_of_payments, denominator |-> power]
        ELSE [ret |-> PyDiv(numerator, denominator), param_check |-> param_check,
              ops |-> <<"interest_rate_month", "number_of_payments", "monthly_payment">>,
              number_of_payments |-> number_of_payments,
              denominator |-> Float(denominator)]

(***************************************************************************)
(* calculate_time_to_repay                                                 *)
(***************************************************************************)
\* the argument of the numerator's logarithm, or the exception raised on the way
LogArgument(loan_amount, interest_rate_month, monthly_payment_base, monthly_payment_additional) ==
    LET total == RAdd(monthly_payment_base, monthly_payment_additional)
        owed == RMul(RMul(interest_rate_month, RInv(R(100))), loan_amount)
        quotient == PyDiv(owed, total)
    IN  IF IsRaise(quotient) THEN quotient ELSE Float(RSub(R(1), quotient.n))

NumberOfPaymentsRequired(log_argument, growth) ==
    IF IsRaise(log_argument) THEN log_argument
    ELSE IF ~MathLogDefined(log_argument.n) THEN Raise("ValueError")
    ELSE IF ~MathLogDefined(growth) THEN Raise("ValueError")
    ELSE IF growth = R(1) THEN Raise("ZeroDivisionError")
    ELSE LogQuotient(log_argument.n, growth)

\* a faulty variant: no validation of its own, the message of
\* calculate_monthly_payment is passed on after that call
calculate_time_to_repay_unchecked(loan_amount, interest_rate_year, loan_term, loan_term_units, monthly_payment_additional) ==
    LET base == calculate_monthly_payment(loan_amount, interest_rate_year,
                                          loan_term, loan_term_units)
        interest_rate_month == RMul(interest_rate_year, RInv(R(12)))
        growth == RAdd(R(1), RMul(interest_rate_month, RInv(R(100))))
        log_argument == LogArgument(loan_amount, interest_rate_month,
                                    base.ret.n, monthly_payment_additional)
    IN  IF isinstance_str(base.ret) \/ IsRaise(base.ret)
        THEN [ret |-> base.ret, param_check |-> base.param_check,
              ops |-> <<"calculate_monthly_payment">>, log_argument |-> None]
        ELSE [ret |-> NumberOfPaymentsRequired(log_argument, growth),
              param_check |-> base.param_check,
              ops |-> <<"calculate_monthly_payment", "interest_rate_month",
                        "number_of_payments_required">>,
              log_argument |-> log_argument]

calculate_time_to_repay(loan_amount, interest_rate_year, loan_term, loan_term_units, monthly_payment_additional) ==
    LET param_check == check_loan_parameters(loan_amount, interest_rate_year,
                                             loan_term, loan_term_units)
        base == calculate_monthly_payment(loan_amount, interest_rate_year,
                                          loan_term, loan_term_units)
        monthly_payment_base == base.ret
        interest_rate_month == RMul(interest_rate_year, RInv(R(12)))
        growth == RAdd(R(1), RMul(interest_rate_month, RInv(R(100))))
        log_argument == LogArgument(loan_amount, interest_rate_month,
                                    monthly_payment_base.n, monthly_payment_additional)
    IN  IF isinstance_str(param_check)
        THEN [ret |-> param_check, param_check |-> param_check, ops |-> <<>>,
              log_argument |-> None]
        ELSE IF IsRaise(monthly_payment_base)
        THEN [ret |-> monthly_payment_base, param_check |-> param_check,
              ops |-> <<"calculate_monthly_payment">>, log_argument |-> None]
        ELSE IF isinstance_str(monthly_payment_base)
        THEN [ret |-> Raise("TypeError"), param_check |-> param_check,
              ops |-> <<"calculate_monthly_payment", "interest_rate_month",
                        "number_of_payments_required">>,
              log_argument |-> None]
        ELSE [ret |-> NumberOfPaymentsRequired(log_argument, growth),
              param_check |-> param_check,
              ops |-> <<"calculate_monthly_payment", "interest_rate_month",
                        "number_of_payments_required">>,
              log_argument |-> log_argument]

(***************************************************************************)
(* calculate_monthly_takehome                                              *)
(***************************************************************************)
\* a faulty variant: the tax rate used as a fraction, not as a percentage
calculate_monthly_takehome_fraction(salary_base, effective_tax_rate, annual_savings) ==
    LET salary_takehome ==
            RSub(RMul(salary_base, RSub(R(1), effective_tax_rate)), annual_savings)
    IN  IF salary_base = R(0) THEN Str("Please enter valid salary")
        ELSE Float(RMul(salary_takehome, RInv(R(12))))

calculate_monthly_takehome(salary_base, effective_tax_rate, annual_savings) ==
    LET salary_takehome ==
            RSub(RMul(salary_base, RSub(R(1), RMul(effective_tax_rate, RInv(R(100))))),
                 annual_savings)
    IN  IF salary_base = R(0) THEN Str("Please enter valid salary")
        ELSE Float(RMul(salary_takehome, RInv(R(12))))

(***************************************************************************)
(* Text of the entry widgets: float(text), math.ceil and str.format.       *)
(***************************************************************************)
\* the whole numbers typed into the form
Amounts == (-MaxAmount) .. MaxAmount

Rates == {-2400, -1200, -600, 0, 1200}

Terms == {-1, 0, 1, 2}

Extras == (-MaxExtra) .. MaxExtra

Salaries == {100000 * k : k \in 0 .. MaxSalaryUnits}

TaxRates == {-25, 25}

Savings == {12000, 200000}

Numerals == Amounts \cup Rates \cup Terms \cup Extras \cup Salaries \cup TaxRates \cup Savings

\* the decimal numeral of each of them
NumeralOf == [text \in {ToString(i) : i \in Numerals} |->
                 CHOOSE i \in Numerals : ToString(i) = text]

\* float(text) of a decimal numeral
float(text) == R(NumeralOf[text])

\* text.strip() of an entry's text
strip(text) == IF text \in {"", " ", "  "} THEN "" ELSE text

Digit(d) == ToString(d)

\* the decimals of rest / q, digit by digit: <<digits as a number, what is left>>
RECURSIVE Decimals(_, _, _)
Decimals(rest, q, places) ==
    IF places = 0 THEN <<0, rest>>
    ELSE LET d == Decimals(rest, q, places - 1)
         IN  <<10 * d[1] + ((10 * d[2]) \div q), (10 * d[2]) % q>>

\* round-half-even of |x| * 10^places
RoundScaled(x, places) ==
    LET a == Abs(x[1])
        d == Decimals(a % x[2], x[2], places)
        low == (a \div x[2]) * (IF places = 1 THEN 10 ELSE 100) + d[1]
        twice == 2 * d[2]
        up == IF twice > x[2] \/ (twice = x[2] /\ low % 2 = 1) THEN 1 ELSE 0
    IN  low + up

\* "{:.2f}".format(x)
Format2f(x) ==
    LET c == RoundScaled(x, 2)
    IN  (IF x[1] < 0 THEN "-" ELSE "") \o ToString(c \div 100) \o "."
            \o Digit((c % 100) \div 10) \o Digit(c % 10)

\* "{:.1f}".format(x), negative standing for the sign bit of x
Format1f(x, negative) ==
    LET c == RoundScaled(x, 1)
    IN  (IF negative THEN "-" ELSE "") \o ToString(c \div 10) \o "." \o Digit(c % 10)

\* whether the whole number k is >= -log(x)/log(b)
AtLeastLogQuotient(k, x, b) ==
    IF RLess(R(1), b) THEN RLeq(R(1), RMul(RPowInt(b, k), x))
    ELSE RLeq(RMul(RPowInt(b, k), x), R(1))

RECURSIVE CeilDown(_, _, _)
CeilDown(k, x, b) == IF AtLeastLogQuotient(k - 1, x, b) THEN CeilDown(k - 1, x, b) ELSE k

RECURSIVE CeilUp(_, _, _)
CeilUp(k, x, b) == IF AtLeastLogQuotient(k, x, b) THEN k ELSE CeilUp(k + 1, x, b)

\* math.ceil(v) of a float
math_ceil(v) ==
    IF IsExact(v) THEN -((-v.n[1]) \div v.n[2])
    ELSE IF AtLeastLogQuotient(0, v.n, v.b) THEN CeilDown(0, v.n, v.b)
    ELSE CeilUp(1, v.n, v.b)

\* the texts "{:.1f}".format(v / 12) can be: one text when v is known exactly,
\* otherwise every tenth whose rounding interval meets ((k - 1) / 12, k / 12)
FormatYears(v) ==
    LET k == math_ceil(v)
        whole == RMul(RPowInt(v.b, k), v.n) = R(1)
        minus == k < 0 \/ (k = 0 /\ (~whole \/ RLess(R(1), v.b)))
    IN  IF IsExact(v) THEN {Format1f(RMul(v.n, RInv(R(12))), v.n[1] < 0)}
        ELSE IF whole THEN {Format1f(RMul(R(k), RInv(R(12))), minus)}
        ELSE {Format1f(<<Abs(m), 10>>, minus) :
                m \in {i \in (-Abs(k) - 1) .. (Abs(k) + 1) :
                         6 * i + 3 > 5 * k - 5 /\ 6 * i - 3 < 5 * k}}

(***************************************************************************)
(* The form: make_form builds the entries, each Entry holding "0", and the *)
(* two radio-button variables holding their initial text.                  *)
(***************************************************************************)
Texts(numbers) == {ToString(i) : i \in numbers}

make_form ==
    [f \in {"Loan Amount", "Annual Interest Rate", "Loan Term", "Additional Monthly Payment",
            "Salary", "Effective Tax Rate", "Annual Savings Target",
            "Total Monthly Payment", "Time to Repay", "Monthly Take-home Salary",
            "Loan Term Units", "Repay Time Units"} |->
        IF f \in {"Loan Term Units", "Repay Time Units"} THEN f ELSE "0"]

LoanTermUnits == {"Loan Term Units", "months", "years"}

RepayTimeUnits == {"Repay Time Units", "months", "years"}

\* the form after the user typed into the loan entries and clicked radio buttons
LoanForms ==
    {[make_form EXCEPT !["Loan Amount"] = a, !["Annual Interest Rate"] = r,
                       !["Loan Term"] = t, !["Additional Monthly Payment"] = x,
                       !["Loan Term Units"] = u, !["Repay Time Units"] = v] :
        a \in {""} \cup Texts(Amounts), r \in Texts(Rates), t \in Texts(Terms),
        x \in {""} \cup Texts(Extras), u \in LoanTermUnits, v \in RepayTimeUnits}

\* the form after the user typed into the salary entries and some loan entries
SalaryForms ==
    {[make_form EXCEPT !["Salary"] = s, !["Effective Tax Rate"] = e,
                       !["Annual Savings Target"] = g, !["Loan Amount"] = a,
                       !["Annual Interest Rate"] = r, !["Loan Term"] = "1",
                       !["Additional Monthly Payment"] = x, !["Loan Term Units"] = u] :
        s \in {"", " "} \cup Texts(Salaries), e \in Texts(TaxRates), g \in Texts(Savings),
        a \in {"", "0", "1"}, r \in {"0", "1200", "-2400"}, x \in {"", "2"},
        u \in LoanTermUnits}

fill_missing_fields(e, fields_to_fill) ==
    [f \in DOMAIN e |-> IF f \in fields_to_fill /\ strip(e[f]) = "" THEN "0" ELSE e[f]]

LoanArgs(e) ==
    [loan_amount |-> float(e["Loan Amount"]),
     interest_rate_year |-> float(e["Annual Interest Rate"]),
     loan_term |-> float(e["Loan Term"]),
     loan_term_units |-> e["Loan Term Units"],
     monthly_payment_additional |-> float(e["Additional Monthly Payment"])]

SalaryArgs(e) ==
    [salary_base |-> float(e["Salary"]),
     effective_tax_rate |-> float(e["Effective Tax Rate"]),
     annual_savings |-> float(e["Annual Savings Target"])]

\* Typing into an Entry and clicking a radio button run no code of the program:
\* the form a callback finds is make_form's with any texts typed into it.
Init ==
    /\ entries \in LoanForms \cup SalaryForms
    /\ handler = ""
    /\ raised = ""
    /\ calls = <<>>

(***************************************************************************)
(* The button callbacks.  Each runs to its end or to the exception that    *)
(* leaves it; Tk reports the exception and the form stays in use.  handler *)
(* names the last callback run, raised the exception that left it ("" when *)
(* it returned) and calls the calculations it called, in order.            *)
(***************************************************************************)
LoanFields == {"Loan Amount", "Annual Interest Rate", "Loan Term", "Additional Monthly Payment"}

SalaryFields == {"Salary", "Effective Tax Rate", "Annual Savings Target"}

\* lines 142-148: what is left in the Time to Repay entry, and the exception if any
time_to_repay_display(time_to_repay, repay_time_units) ==
    IF repay_time_units = "months"
    THEN IF isinstance_str(time_to_repay) THEN {[text |-> "", raised |-> "TypeError"]}
         ELSE {[text |-> ToString(math_ceil(time_to_repay)), raised |-> ""]}
    ELSE IF repay_time_units = "years"
    THEN IF isinstance_str(time_to_repay) THEN {[text |-> "", raised |-> "TypeError"]}
         ELSE {[text |-> y, raised |-> ""] : y \in FormatYears(time_to_repay)}
    ELSE {[text |-> "Please select 'years' or 'months'", raised |-> ""]}

call_calculate_time_to_repay ==
    LET filled == fill_missing_fields(entries, LoanFields)
        args == LoanArgs(filled)
        result == calculate_time_to_repay(args.loan_amount, args.interest_rate_year,
                      args.loan_term, args.loan_term_units, args.monthly_payment_additional)
    IN  /\ handler' = "call_calculate_time_to_repay"
        /\ calls' = <<[fn |-> "calculate_time_to_repay", args |-> args, result |-> result]>>
        /\ IF IsRaise(result.ret)
           THEN /\ entries' = filled
                /\ raised' = result.ret.s
           ELSE \E d \in time_to_repay_display(result.ret, filled["Repay Time Units"]) :
                /\ entries' = [filled EXCEPT !["Time to Repay"] = d.text]
                /\ raised' = d.raised

call_calculate_total_monthly_payment ==
    LET filled == fill_missing_fields(entries, LoanFields)
        args == LoanArgs(filled)
        result == calculate_monthly_payment(args.loan_amount, args.interest_rate_year,
                      args.loan_term, args.loan_term_units)
        monthly_payment_base == result.ret
    IN  /\ handler' = "call_calculate_total_monthly_payment"
        /\ calls' = <<[fn |-> "calculate_monthly_payment", args |-> args, result |-> result]>>
        /\ IF IsRaise(monthly_payment_base)
           THEN /\ entries' = filled
                /\ raised' = monthly_payment_base.s
           ELSE /\ raised' = ""
                /\ entries' = [filled EXCEPT !["Total Monthly Payment"] =
                       IF ~isinstance_str(monthly_payment_base)
                       THEN Format2f(RAdd(monthly_payment_base.n,
                                          args.monthly_payment_additional))
                       ELSE monthly_payment_base.s]

\* a faulty variant: the loan's payment asked for whatever the loan amount
takehome_loan_part_always(args) ==
    LET result == calculate_monthly_payment(args.loan_amount, args.interest_rate_year,
                      args.loan_term, args.loan_term_units)
    IN  [calls |-> <<[fn |-> "calculate_monthly_payment", args |-> args,
                      result |-> result]>>,
         monthly_payment_base |-> result.ret,
         additional_monthly_payment |-> args.monthly_payment_additional]

\* lines 190-200: the loan's part in the take-home figure
takehome_loan_part(args) ==
    IF args.loan_amount = R(0)
    THEN [calls |-> <<>>, monthly_payment_base |-> Float(R(0)),
          additional_monthly_payment |-> R(0)]
    ELSE LET result == calculate_monthly_payment(args.loan_amount, args.interest_rate_year,
                           args.loan_term, args.loan_term_units)
         IN  [calls |-> <<[fn |-> "calculate_monthly_payment", args |-> args,
                           result |-> result]>>,
              monthly_payment_base |-> result.ret,
              additional_monthly_payment |-> args.monthly_payment_additional]

\* lines 202-207: the text put into the Monthly Take-home Salary entry
takehome_display(monthly_takehome, monthly_payment_base, additional_monthly_payment) ==
    IF ~isinstance_str(monthly_takehome) /\ ~isinstance_str(monthly_payment_base)
    THEN Format2f(RSub(RSub(monthly_takehome.n, monthly_payment_base.n),
                       additional_monthly_payment))
    ELSE IF isinstance_str(monthly_takehome) THEN monthly_takehome.s
    ELSE monthly_payment_base.s

call_calculate_monthly_takehome ==
    LET filled == fill_missing_fields(entries, LoanFields \cup SalaryFields)
        salary == SalaryArgs(filled)
        monthly_takehome == calculate_monthly_takehome(salary.salary_base,
                                salary.effective_tax_rate, salary.annual_savings)
        loan == takehome_loan_part(LoanArgs(filled))
    IN  /\ handler' = "call_calculate_monthly_takehome"
        /\ calls' = <<[fn |-> "calculate_monthly_takehome", args |-> salary,
                       result |-> [ret |-> monthly_takehome]]>> \o loan.calls
        /\ IF IsRaise(loan.monthly_payment_base)
           THEN /\ entries' = filled
                /\ raised' = loan.monthly_payment_base.s
           ELSE /\ raised' = ""
                /\ entries' = [filled EXCEPT !["Monthly Take-home Salary"] =
                       takehome_display(monthly_takehome, loan.monthly_payment_base,
                                        loan.additional_monthly_payment)]

Next ==
    \/ call_calculate_total_monthly_payment
    \/ call_calculate_time_to_repay
    \/ call_calculate_monthly_takehome

Spec == Init /\ [][Next]_vars

(***************************************************************************)
(* Properties.  They read the calls recorded by the last callback.         *)
(***************************************************************************)
LoanCalls == {calls[i] : i \in {j \in DOMAIN calls :
                 calls[j].fn \in {"calculate_monthly_payment", "calculate_time_to_repay"}}}

PaymentCalls == {c \in LoanCalls : c.fn = "calculate_monthly_payment"}

RepayCalls == {c \in LoanCalls : c.fn = "calculate_time_to_repay"}

TakehomeCalls == {calls[i] : i \in {j \in DOMAIN calls :
                     calls[j].fn = "calculate_monthly_takehome"}}

Accepted(c) == c.result.param_check = None

\* C1: check_loan_parameters returns a message if and only if the amount, the rate
\* or the term is 0 or the unit is neither "months" nor "years"; on every other
\* input, negative values included, it returns None.
C1_ValidatorRejectsExactlyFourCases ==
    \A c \in LoanCalls :
        LET invalid == \/ c.args.loan_amount = R(0)
                       \/ c.args.interest_rate_year = R(0)
                       \/ c.args.loan_term = R(0)
                       \/ c.args.loan_term_units \notin {"months", "years"}
        IN  /\ isinstance_str(c.result.param_check) <=> invalid
            /\ ~invalid => c.result.param_check = None

\* a negative amount, rate and term went through the validator
C1_Witness ==
    \E c \in LoanCalls :
        /\ c.args.loan_amount[1] < 0
        /\ c.args.interest_rate_year[1] < 0
        /\ c.args.loan_term[1] < 0
        /\ Accepted(c)

\* C2: when check_loan_parameters returns a message, calculate_monthly_payment and
\* calculate_time_to_repay return exactly that message and compute nothing.
C2_ValidationShortCircuits ==
    \A c \in LoanCalls :
        isinstance_str(c.result.param_check) =>
            /\ c.result.ret = c.result.param_check
            /\ c.result.ops = <<>>

\* both functions were called on a rejected input
C2_Witness ==
    /\ handler = "call_calculate_time_to_repay"
    /\ \E c \in RepayCalls : isinstance_str(c.result.param_check)
    /\ entries["Total Monthly Payment"] = "Please enter valid interest rate"

LogArgumentOutside(c) ==
    /\ c.result.log_argument.t = "float"
    /\ ~(RLess(R(0), c.result.log_argument.n) /\ RLess(c.result.log_argument.n, R(1)))

\* C3: on an accepted input whose logarithm argument lies outside (0, 1),
\* calculate_time_to_repay returns an error result: it neither raises nor returns
\* a number of payments.
C3_LogDomainReportedAsError ==
    \A c \in RepayCalls :
        (Accepted(c) /\ LogArgumentOutside(c)) => isinstance_str(c.result.ret)

\* C4: on every accepted input the denominator (1 + r/100)^n - 1 of the payment
\* formula is not zero.
C4_DenominatorNonZero ==
    \A c \in PaymentCalls :
        (Accepted(c) /\ c.result.denominator.t = "float") =>
            c.result.denominator.n # R(0)

\* C5: on accepted inputs the payment for a term in years equals the payment for
\* twelve times that term in months; the payment count is term * 12 for years
\* and term for months.
C5_YearsEqualTwelveTimesMonths ==
    \A c \in PaymentCalls :
        Accepted(c) =>
            /\ c.args.loan_term_units = "years" =>
                /\ c.result.ret = calculate_monthly_payment(c.args.loan_amount,
                                      c.args.interest_rate_year,
                                      RMul(c.args.loan_term, R(12)), "months").ret
                /\ c.result.number_of_payments = RMul(c.args.loan_term, R(12))
            /\ c.args.loan_term_units = "months" =>
                c.result.number_of_payments = c.args.loan_term

\* a payment was computed for an accepted term in years
C5_Witness ==
    \E c \in PaymentCalls :
        /\ Accepted(c)
        /\ c.args.loan_term_units = "years"
        /\ IsExact(c.result.ret)
        /\ c.result.ret.n # R(0)

TakehomeContract(c, example) ==
    /\ isinstance_str(c.result.ret) <=> c.args.salary_base = R(0)
    /\ c.args.salary_base # R(0) =>
        /\ IsExact(c.result.ret)
        /\ RMul(R(1200), c.result.ret.n) =
               RSub(RMul(c.args.salary_base, RSub(R(100), c.args.effective_tax_rate)),
                    RMul(R(100), c.args.annual_savings))
    /\ (c.args = [salary_base |-> R(100000), effective_tax_rate |-> R(25),
                  annual_savings |-> R(12000)]) => c.result.ret = Float(R(example))

\* C6 as stated: calculate_monthly_takehome returns a message exactly when the
\* salary is 0, otherwise (salary * (1 - taxRate/100) - savings) / 12, and
\* (100000, 25, 12000) gives 5125.
C6_TakehomeExample5125 == \A c \in TakehomeCalls : TakehomeContract(c, 5125)

\* C6 as amended: the same, and (100000, 25, 12000) gives 5250.
C6_TakehomeFormula == \A c \in TakehomeCalls : TakehomeContract(c, 5250)

\* the example was computed, and so was a negative take-home
C6_Witness ==
    \E c \in TakehomeCalls :
        /\ c.args = [salary_base |-> R(100000), effective_tax_rate |-> R(25),
                     annual_savings |-> R(12000)]
        /\ c.result.ret = Float(R(5250))

LoanMessages ==
    {"Please enter valid loan amount", "Please enter valid interest rate",
     "Please enter valid loan term", "Please select 'years' or 'months' for the loan term"}

\* C7: in call_calculate_monthly_takehome with a Loan Amount of 0,
\* calculate_monthly_payment is not called and base and extra payment count as 0:
\* the callback returns, and with a non-zero salary the entry shows the take-home
\* alone, never a loan validation message.
C7_ZeroLoanAmountSkipsLoan ==
    (handler = "call_calculate_monthly_takehome" /\ float(entries["Loan Amount"]) = R(0)) =>
        /\ PaymentCalls = {}
        /\ raised = ""
        /\ \A c \in TakehomeCalls :
              IF isinstance_str(c.result.ret)
              THEN entries["Monthly Take-home Salary"] = c.result.ret.s
              ELSE entries["Monthly Take-home Salary"] = Format2f(c.result.ret.n)
        /\ entries["Monthly Take-home Salary"] \notin LoanMessages

\* the callback ran with no loan amount, an extra payment, no rate and no unit,
\* and showed a take-home figure
C7_Witness ==
    /\ handler = "call_calculate_monthly_takehome"
    /\ entries["Loan Amount"] = "0"
    /\ entries["Additional Monthly Payment"] = "2"
    /\ entries["Annual Interest Rate"] = "0"
    /\ entries["Loan Term Units"] = "Loan Term Units"
    /\ entries["Salary"] = "100000"
    /\ entries["Monthly Take-home Salary"] = "5250.00"

\* the messages returned to call_calculate_monthly_takehome
UpstreamMessages ==
    {c.result.ret.s : c \in {d \in TakehomeCalls \cup PaymentCalls :
                                isinstance_str(d.result.ret)}}

\* C8: in call_calculate_monthly_takehome, whenever the take-home result or the
\* base-payment result is a message, the Monthly Take-home Salary entry receives
\* one of the upstream messages unchanged.
C8_UpstreamMessageShown ==
    (handler = "call_calculate_monthly_takehome" /\ UpstreamMessages # {}) =>
        /\ raised = ""
        /\ entries["Monthly Take-home Salary"] \in UpstreamMessages

\* C9: in call_calculate_time_to_repay, whenever calculate_time_to_repay returns a
\* message, the callback writes that message into the Time to Repay entry and no
\* exception leaves it, whatever the repay-time unit.
C9_RepayMessageShown ==
    handler = "call_calculate_time_to_repay" =>
        \A c \in RepayCalls :
            isinstance_str(c.result.ret) =>
                /\ raised = ""
                /\ entries["Time to Repay"] = c.result.ret.s

\* C10: with the repay-time unit never selected, every run of
\* call_calculate_time_to_repay ends with a message in the Time to Repay entry and
\* no exception leaves it.
C10_MissingSelectionReported ==
    (handler = "call_calculate_time_to_repay"
        /\ entries["Repay Time Units"] \notin {"months", "years"}) =>
        /\ raised = ""
        /\ entries["Time to Repay"] \in LoanMessages \cup {"Please select 'years' or 'months'"}

====
